---- MODULE Spec2Model ----
(***************************************************************************)
(* Model of the Ask Memory Agent worker (src/src/index.js).                *)
(*                                                                         *)
(* One inbound HTTP request is one task.  A task runs fetch() and          *)
(* handleMCP() synchronously up to its first await and is suspended only   *)
(* at the awaited calls: MEMORY_KV.put, MEMORY_KV.list, MEMORY_KV.get and  *)
(* the completion-API fetch.  Tasks share nothing but the key-value        *)
(* namespace MEMORY_KV.                                                    *)
(*                                                                         *)
(* JavaScript strings are sequences of one-character strings; a produced   *)
(* text is a sequence of tokens, a token being a literal piece of a        *)
(* template or one character of an interpolated string.  The emoji of the  *)
(* templates are written as ASCII tokens: "(x) " for the cross mark,       *)
(* "(ok) " for the check mark, "(?) " for the question mark, "* " for the  *)
(* bullet, "(brain) ", "(memo) " and "(clipboard) ".                       *)
(***************************************************************************)
EXTENDS Integers, Sequences, FiniteSets, TLC

VARIABLES MEMORY_KV, req, served, stored

vars == <<MEMORY_KV, req, served, stored>>

(* Bound of the model: the number of requests a behaviour accepts *)
MaxRequests == 3

(* The tasks in flight at once: two, so that one request's store calls *)
(* interleave with another request's list and get calls                *)
Reqs == {1, 2}

(* Inputs *)
Keys == {<<"a">>, <<"B">>}
Values == {<<"b">>, <<"A", "c">>}
Queries == {<<"B">>, <<"c">>, <<"z">>}
Questions == {<<>>, <<" ">>, <<"c">>}
Ids == {"1", "2"}
Null == "null"
HttpMethods == {"OPTIONS", "GET", "POST", "DELETE"}
Paths == {"/health", "/", "/mcp", "/other"}
RpcMethods == {"initialize", "tools/list", "tools/call", "shutdown"}
ToolNames == {"ask_memory", "store_memory", "search_memory", "delete_memory"}

(* An absent property reads as undefined; undefined, null and "" are falsy *)
Undefined == <<>>
Prop(args, f) == IF f \in DOMAIN args THEN args[f] ELSE Undefined
Falsy(v) == v = <<>>

(***************************************************************************)
(* String functions                                                        *)
(***************************************************************************)
LowerChar(c) ==
  CASE c = "A" -> "a"
    [] c = "B" -> "b"
    [] c = "C" -> "c"
    [] OTHER -> c

toLowerCase(s) == [i \in 1..Len(s) |-> LowerChar(s[i])]

includes(s, sub) ==
  \E i \in 0..(Len(s) - Len(sub)) : SubSeq(s, i + 1, i + Len(sub)) = sub

IsSpace(c) == c \in {" ", "\n"}

RECURSIVE trimStart(_)
trimStart(s) ==
  IF s # <<>> /\ IsSpace(Head(s)) THEN trimStart(Tail(s)) ELSE s

RECURSIVE trimEnd(_)
trimEnd(s) ==
  IF s # <<>> /\ IsSpace(s[Len(s)]) THEN trimEnd(SubSeq(s, 1, Len(s) - 1)) ELSE s

trim(s) == trimEnd(trimStart(s))

RECURSIVE join(_, _)
join(parts, sep) ==
  IF parts = <<>> THEN <<>>
  ELSE IF Len(parts) = 1 THEN parts[1]
  ELSE parts[1] \o sep \o join(Tail(parts), sep)

(***************************************************************************)
(* The key-value namespace: a sequence of entries in enumeration order     *)
(***************************************************************************)
KvNames(kv) == [i \in 1..Len(kv) |-> kv[i].name]

KvHas(kv, k) == \E i \in 1..Len(kv) : kv[i].name = k

KvGetValue(kv, k) ==
  IF KvHas(kv, k)
  THEN kv[CHOOSE i \in 1..Len(kv) : kv[i].name = k].value
  ELSE <<>>

KvPutValue(kv, k, v) ==
  IF KvHas(kv, k)
  THEN [i \in 1..Len(kv) |-> IF kv[i].name = k THEN [name |-> k, value |-> v] ELSE kv[i]]
  ELSE Append(kv, [name |-> k, value |-> v])

KvErrorMessage == <<"KV operation failed">>
ParseErrorMessage == <<"Unexpected token in JSON">>

(***************************************************************************)
(* Responses                                                               *)
(***************************************************************************)
NoResponse ==
  [status |-> 0, kind |-> "none", error |-> FALSE, code |-> 0,
   message |-> <<>>, result |-> "none", text |-> <<>>, id |-> Null]

PlainResponse(status, kind) ==
  [NoResponse EXCEPT !.status = status, !.kind = kind]

RpcResult(result, text, id) ==
  [status |-> 200, kind |-> "rpc", error |-> FALSE, code |-> 0,
   message |-> <<>>, result |-> result, text |-> text, id |-> id]

RpcError(status, code, message, id) ==
  [status |-> status, kind |-> "rpc", error |-> TRUE, code |-> code,
   message |-> message, result |-> "none", text |-> <<>>, id |-> id]

InternalError(message) == RpcError(500, -32603, message, Null)

(***************************************************************************)
(* Texts                                                                   *)
(***************************************************************************)
ResultLine(name, value) == <<"* ">> \o name \o <<": ">> \o value

SearchText(results, query) ==
  IF Len(results) = 0
  THEN <<"No memories found matching \"">> \o query \o <<"\"">>
  ELSE <<"Found ", ToString(Len(results)), " memories:", "\n">>
         \o join(results, <<"\n">>)

SearchErrorText(message) == <<"Search error: ">> \o message

MissingFieldsText == <<"(x) Both key and value are required">>
StoredText(key) == <<"(ok) Stored memory: ">> \o key
AskBlankText == <<"(?) Please ask a question about your memory.">>

PromptText(question, searchResults) ==
  <<"You are a helpful memory assistant. The user asked: \"">> \o question
    \o <<"\"", "\n", "\n", "Here's what I found in their stored memories:", "\n">>
    \o searchResults
    \o <<"\n", "\n", "Provide a helpful, conversational response.">>

AskAnswerText(question, content) ==
  <<"(brain) **Memory Query**: \"">> \o question
    \o <<"\"", "\n", "\n", "(memo) **Response**: ">> \o trim(content)

(* faulty variant: the error text without the search results *)
AskErrorTextNoFallback(question, message, searchResults) ==
  <<"(brain) **Memory Query**: \"">> \o question
    \o <<"\"", "\n", "\n", "(x) **AI Error**: ">> \o message

AskErrorText(question, message, searchResults) ==
  <<"(brain) **Memory Query**: \"">> \o question
    \o <<"\"", "\n", "\n", "(x) **AI Error**: ">> \o message
    \o <<"\n", "\n", "(clipboard) **Found memories**: ">> \o searchResults

(***************************************************************************)
(* Requests                                                                *)
(***************************************************************************)
NoBody == [kind |-> "none", method |-> "none", id |-> Null, name |-> "none", args |-> <<>>]
InvalidBody == [NoBody EXCEPT !.kind = "invalid"]

KeyInputs == Keys \cup {<<>>}
ValueInputs == Values \cup {<<>>}

StoreArgs ==
  {<<>>} \cup {[key |-> k] : k \in KeyInputs} \cup {[value |-> v] : v \in ValueInputs}
    \cup {[key |-> k, value |-> v] : k \in KeyInputs, v \in ValueInputs}
SearchArgs == {<<>>} \cup {[query |-> q] : q \in Queries}
AskArgs == {<<>>} \cup {[question |-> q] : q \in Questions}

ArgsFor(name) ==
  CASE name = "store_memory" -> StoreArgs
    [] name = "search_memory" -> SearchArgs
    [] name = "ask_memory" -> AskArgs
    [] OTHER -> {<<>>}

JsonBodies ==
  {[kind |-> "json", method |-> m, id |-> i, name |-> "none", args |-> <<>>] :
      m \in RpcMethods \ {"tools/call"}, i \in Ids}
    \cup UNION {{[kind |-> "json", method |-> "tools/call", id |-> i, name |-> n, args |-> a] :
                   i \in Ids, a \in ArgsFor(n)} : n \in ToolNames}

BodiesFor(m, p) ==
  IF m = "POST" /\ p = "/mcp" THEN JsonBodies \cup {InvalidBody} ELSE {NoBody}

NothingHeld == [k \in Keys |-> {}]

Idle ==
  [pc |-> "idle", httpMethod |-> "none", path |-> "none", body |-> NoBody,
   query |-> <<>>, list |-> <<>>, i |-> 0, results |-> <<>>,
   searchResults |-> <<>>, prompt |-> <<>>, response |-> NoResponse,
   nList |-> 0, nGet |-> 0, nPut |-> 0, nApi |-> 0,
   held |-> NothingHeld, kvFailed |-> FALSE, apiFailed |-> FALSE, threw |-> FALSE]

Done(rq, response) == [rq EXCEPT !.pc = "done", !.response = response]

(* faulty variant: the question is tested without trimming *)
askMemoryWithAINoTrim(rq, question) ==
  IF question = <<>>
  THEN Done(rq, RpcResult("content", AskBlankText, rq.body.id))
  ELSE [rq EXCEPT !.pc = "list", !.query = question]

(* askMemoryWithAI up to its first await *)
askMemoryWithAI(rq, question) ==
  IF trim(question) = <<>>
  THEN Done(rq, RpcResult("content", AskBlankText, rq.body.id))
  ELSE [rq EXCEPT !.pc = "list", !.query = question]

(* faulty variant: only the key is required *)
storeMemoryKeyOnly(rq) ==
  IF Falsy(Prop(rq.body.args, "key"))
  THEN Done(rq, RpcResult("content", MissingFieldsText, rq.body.id))
  ELSE [rq EXCEPT !.pc = "put"]

(* the store_memory branch up to its await of MEMORY_KV.put *)
storeMemory(rq) ==
  LET key == Prop(rq.body.args, "key")
      value == Prop(rq.body.args, "value")
  IN IF Falsy(key) \/ Falsy(value)
     THEN Done(rq, RpcResult("content", MissingFieldsText, rq.body.id))
     ELSE [rq EXCEPT !.pc = "put"]

callTool(rq) ==
  LET name == rq.body.name
      args == rq.body.args
  IN CASE name = "ask_memory" -> askMemoryWithAI(rq, Prop(args, "question"))
       [] name = "store_memory" -> storeMemory(rq)
       [] name = "search_memory" -> [rq EXCEPT !.pc = "list", !.query = Prop(args, "query")]
       [] OTHER -> Done(rq, RpcError(200, -32601, <<"Unknown tool: ", name>>, rq.body.id))

(* faulty variant: the unknown-method error does not carry the request's id *)
handleMCPNoId(rq) ==
  LET method == rq.body.method
  IN CASE method = "initialize" -> Done(rq, RpcResult("capabilities", <<>>, rq.body.id))
       [] method = "tools/list" -> Done(rq, RpcResult("tools", <<>>, rq.body.id))
       [] method = "tools/call" -> callTool(rq)
       [] OTHER -> Done(rq, RpcError(200, -32601, <<"Unknown method: ", method>>, Null))

(* handleMCP up to its first await *)
handleMCP(rq) ==
  LET method == rq.body.method
  IN CASE method = "initialize" -> Done(rq, RpcResult("capabilities", <<>>, rq.body.id))
       [] method = "tools/list" -> Done(rq, RpcResult("tools", <<>>, rq.body.id))
       [] method = "tools/call" -> callTool(rq)
       [] OTHER -> Done(rq, RpcError(200, -32601, <<"Unknown method: ", method>>, rq.body.id))

(* faulty variant: /mcp is served for every method *)
routeAnyMethod(rq) ==
  IF rq.httpMethod = "OPTIONS" THEN Done(rq, PlainResponse(200, "cors"))
  ELSE IF rq.path = "/health" THEN Done(rq, PlainResponse(200, "health"))
  ELSE IF rq.path = "/" THEN Done(rq, PlainResponse(200, "descriptor"))
  ELSE IF rq.path = "/mcp"
       THEN IF rq.body.kind # "json"
            THEN Done([rq EXCEPT !.threw = TRUE], InternalError(ParseErrorMessage))
            ELSE handleMCP(rq)
  ELSE Done(rq, PlainResponse(404, "Not Found"))

(* routing of one inbound request *)
route(rq) ==
  IF rq.httpMethod = "OPTIONS" THEN Done(rq, PlainResponse(200, "cors"))
  ELSE IF rq.path = "/health" THEN Done(rq, PlainResponse(200, "health"))
  ELSE IF rq.path = "/" THEN Done(rq, PlainResponse(200, "descriptor"))
  ELSE IF rq.path = "/mcp" /\ rq.httpMethod = "POST"
       THEN IF rq.body.kind = "invalid"
            THEN Done([rq EXCEPT !.threw = TRUE], InternalError(ParseErrorMessage))
            ELSE handleMCP(rq)
  ELSE Done(rq, PlainResponse(404, "Not Found"))

(* searchMemories returns text to its caller *)
finishSearch(rq, text) ==
  IF rq.body.name = "search_memory"
  THEN Done(rq, RpcResult("content", text, rq.body.id))
  ELSE [rq EXCEPT !.pc = "completion", !.searchResults = text,
                  !.prompt = PromptText(rq.query, text), !.nApi = @ + 1]

(* faulty variant: the query is not lowercased *)
matchesCaseSensitive(name, value, query) ==
  /\ ~Falsy(value)
  /\ \/ includes(toLowerCase(name), query)
     \/ includes(toLowerCase(value), query)

(* faulty variant: only the key is searched *)
matchesKeyOnly(name, value, query) ==
  /\ ~Falsy(value)
  /\ includes(toLowerCase(name), toLowerCase(query))

(* the filter of the search loop *)
matches(name, value, query) ==
  /\ ~Falsy(value)
  /\ \/ includes(toLowerCase(name), toLowerCase(query))
     \/ includes(toLowerCase(value), toLowerCase(query))

(* history: the values each key holds from the call of searchMemories to its return *)
Snapshot(kv) == [k \in Keys |-> {KvGetValue(kv, k)}]

Observe(rq, k, v) ==
  IF rq.pc \in {"list", "get"} THEN [rq EXCEPT !.held[k] = @ \cup {v}] ELSE rq

(***************************************************************************)
(* Actions                                                                 *)
(***************************************************************************)
Init ==
  /\ MEMORY_KV = <<>>
  /\ req = [r \in Reqs |-> Idle]
  /\ served = 0
  /\ stored = [k \in Keys |-> <<>>]

fetch(r) ==
  /\ req[r].pc = "idle"
  /\ \A s \in Reqs : s < r => req[s].pc # "idle"
  /\ served < MaxRequests
  /\ \E m \in HttpMethods, p \in Paths :
       \E b \in BodiesFor(m, p) :
         LET rq == route([Idle EXCEPT !.httpMethod = m, !.path = p, !.body = b])
         IN req' = [req EXCEPT ![r] =
                      IF rq.pc = "list"
                      THEN [rq EXCEPT !.held = Snapshot(MEMORY_KV)]
                      ELSE rq]
  /\ served' = served + 1
  /\ UNCHANGED <<MEMORY_KV, stored>>

(* faulty variant: an existing key keeps its value *)
KvPutIfAbsent(r) ==
  /\ req[r].pc = "put"
  /\ LET key == Prop(req[r].body.args, "key")
         value == Prop(req[r].body.args, "value")
         rq == [req[r] EXCEPT !.nPut = @ + 1]
     IN \/ /\ MEMORY_KV' = IF KvHas(MEMORY_KV, key) THEN MEMORY_KV
                            ELSE KvPutValue(MEMORY_KV, key, value)
           /\ stored' = [stored EXCEPT ![key] = Append(@, value)]
           /\ req' = [s \in Reqs |->
                        IF s = r
                        THEN Done(rq, RpcResult("content", StoredText(key), rq.body.id))
                        ELSE Observe(req[s], key, value)]
        \/ /\ req' = [req EXCEPT ![r] =
                        Done([rq EXCEPT !.threw = TRUE], InternalError(KvErrorMessage))]
           /\ UNCHANGED <<MEMORY_KV, stored>>
  /\ UNCHANGED served

KvPut(r) ==
  /\ req[r].pc = "put"
  /\ LET key == Prop(req[r].body.args, "key")
         value == Prop(req[r].body.args, "value")
         rq == [req[r] EXCEPT !.nPut = @ + 1]
     IN \/ /\ MEMORY_KV' = KvPutValue(MEMORY_KV, key, value)
           /\ stored' = [stored EXCEPT ![key] = Append(@, value)]
           /\ req' = [s \in Reqs |->
                        IF s = r
                        THEN Done(rq, RpcResult("content", StoredText(key), rq.body.id))
                        ELSE Observe(req[s], key, value)]
        \/ /\ req' = [req EXCEPT ![r] =
                        Done([rq EXCEPT !.threw = TRUE], InternalError(KvErrorMessage))]
           /\ UNCHANGED <<MEMORY_KV, stored>>
  /\ UNCHANGED served

KvList(r) ==
  /\ req[r].pc = "list"
  /\ LET rq == [req[r] EXCEPT !.nList = @ + 1]
         list == KvNames(MEMORY_KV)
     IN \/ req' = [req EXCEPT ![r] =
                     LET listed == [rq EXCEPT !.list = list, !.i = 1]
                     IN IF list = <<>>
                        THEN finishSearch(listed, SearchText(<<>>, rq.query))
                        ELSE [listed EXCEPT !.pc = "get"]]
        \/ req' = [req EXCEPT ![r] =
                     finishSearch([rq EXCEPT !.kvFailed = TRUE],
                                  SearchErrorText(KvErrorMessage))]
  /\ UNCHANGED <<MEMORY_KV, served, stored>>

(* faulty variant: every iteration reads the first listed key *)
KvGetFirstKey(r) ==
  /\ req[r].pc = "get"
  /\ LET rq == [req[r] EXCEPT !.nGet = @ + 1]
         name == rq.list[1]
         value == KvGetValue(MEMORY_KV, name)
         results == IF matches(name, value, rq.query)
                    THEN Append(rq.results, ResultLine(name, value))
                    ELSE rq.results
     IN \/ req' = [req EXCEPT ![r] =
                     LET got == [rq EXCEPT !.results = results, !.i = @ + 1]
                     IN IF rq.i = Len(rq.list)
                        THEN finishSearch(got, SearchText(results, rq.query))
                        ELSE got]
        \/ req' = [req EXCEPT ![r] =
                     finishSearch([rq EXCEPT !.kvFailed = TRUE],
                                  SearchErrorText(KvErrorMessage))]
  /\ UNCHANGED <<MEMORY_KV, served, stored>>

KvGet(r) ==
  /\ req[r].pc = "get"
  /\ LET rq == [req[r] EXCEPT !.nGet = @ + 1]
         name == rq.list[rq.i]
         value == KvGetValue(MEMORY_KV, name)
         results == IF matches(name, value, rq.query)
                    THEN Append(rq.results, ResultLine(name, value))
                    ELSE rq.results
     IN \/ req' = [req EXCEPT ![r] =
                     LET got == [rq EXCEPT !.results = results, !.i = @ + 1]
                     IN IF rq.i = Len(rq.list)
                        THEN finishSearch(got, SearchText(results, rq.query))
                        ELSE got]
        \/ req' = [req EXCEPT ![r] =
                     finishSearch([rq EXCEPT !.kvFailed = TRUE],
                                  SearchErrorText(KvErrorMessage))]
  /\ UNCHANGED <<MEMORY_KV, served, stored>>

CompletionContents == {<<"o", "k">>, <<" ", "o", "k", "\n">>}
TransportErrorMessage == <<"fetch failed">>
MalformedMessage == <<"Cannot read properties of undefined (reading '0')">>

CompletionOutcomes ==
  [transport : BOOLEAN, status : {200, 500}, wellFormed : BOOLEAN,
   content : CompletionContents]

Completion(r) ==
  /\ req[r].pc = "completion"
  /\ \E o \in CompletionOutcomes :
       LET rq == req[r]
           failure == IF o.transport THEN TransportErrorMessage
                      ELSE IF ~(o.status \in 200..299)
                           THEN <<"OpenAI API error: ", ToString(o.status)>>
                      ELSE IF ~o.wellFormed THEN MalformedMessage
                      ELSE <<>>
           text == IF failure # <<>>
                   THEN AskErrorText(rq.query, failure, rq.searchResults)
                   ELSE AskAnswerText(rq.query, o.content)
       IN req' = [req EXCEPT ![r] =
                    Done([rq EXCEPT !.apiFailed = (failure # <<>>)],
                         RpcResult("content", text, rq.body.id))]
  /\ UNCHANGED <<MEMORY_KV, served, stored>>

(* the response is delivered and the task ends *)
Return(r) ==
  /\ req[r].pc = "done"
  /\ req' = [req EXCEPT ![r] = Idle]
  /\ UNCHANGED <<MEMORY_KV, served, stored>>

Next ==
  \E r \in Reqs :
    \/ fetch(r)
    \/ KvPut(r)
    \/ KvList(r)
    \/ KvGet(r)
    \/ Completion(r)
    \/ Return(r)

Spec == Init /\ [][Next]_vars

TypeOK ==
  /\ served \in 0..MaxRequests
  /\ \A r \in Reqs : req[r].pc \in {"idle", "put", "list", "get", "completion", "done"}

(***************************************************************************)
(* Vocabulary of the properties                                            *)
(***************************************************************************)
Fold(s) ==
  [i \in 1..Len(s) |->
     CASE s[i] = "A" -> "a" [] s[i] = "B" -> "b" [] s[i] = "C" -> "c" [] OTHER -> s[i]]

Occurs(sub, s) ==
  \E i \in 1..(Len(s) + 1) :
    /\ i + Len(sub) - 1 <= Len(s)
    /\ \A j \in 1..Len(sub) : s[i + j - 1] = sub[j]

CiMatch(q, s) == Occurs(Fold(q), Fold(s))

Blank(s) == \A i \in 1..Len(s) : s[i] = " "

ArgOf(rq, f) == IF f \in DOMAIN rq.body.args THEN rq.body.args[f] ELSE <<>>

IsCall(rq, name) ==
  /\ rq.pc # "idle"
  /\ rq.body.kind = "json"
  /\ rq.body.method = "tools/call"
  /\ rq.body.name = name

Answered(rq) == rq.pc = "done"

IsTextResult(rq, text) ==
  /\ rq.response.kind = "rpc"
  /\ rq.response.status = 200
  /\ ~rq.response.error
  /\ rq.response.result = "content"
  /\ rq.response.text = text
  /\ rq.response.id = rq.body.id

(* no key changed between the call of the search and its return *)
Quiet(rq) == \A k \in Keys : Cardinality(rq.held[k]) = 1

ExpectedLine(k, v) == <<"* ">> \o k \o <<": ">> \o v

FirstBreak(s) ==
  IF \E i \in 1..Len(s) : s[i] = "\n"
  THEN CHOOSE i \in 1..Len(s) : s[i] = "\n" /\ \A j \in 1..(i - 1) : s[j] # "\n"
  ELSE Len(s) + 1

RECURSIVE SplitLines(_)
SplitLines(s) ==
  IF FirstBreak(s) > Len(s) THEN <<s>>
  ELSE <<SubSeq(s, 1, FirstBreak(s) - 1)>> \o SplitLines(SubSeq(s, FirstBreak(s) + 1, Len(s)))

(* the "key: value" lines of a search text *)
ReportedLines(text) ==
  IF text # <<>> /\ text[1] = "Found " THEN SplitLines(SubSeq(text, 5, Len(text))) ELSE <<>>

Colon(line) ==
  IF \E i \in 1..Len(line) : line[i] = ": "
  THEN CHOOSE i \in 1..Len(line) : line[i] = ": " /\ \A j \in 1..(i - 1) : line[j] # ": "
  ELSE Len(line) + 1

LineKey(line) == SubSeq(line, 2, Colon(line) - 1)
LineValue(line) == SubSeq(line, Colon(line) + 1, Len(line))

LastStored(k) == IF stored[k] = <<>> THEN <<>> ELSE stored[k][Len(stored[k])]

(***************************************************************************)
(* C1                                                                      *)
(***************************************************************************)
StoredBeforeAndKept(rq, k, v) == rq.held[k] = {v}

NoDuplicateKeys ==
  \A i, j \in 1..Len(MEMORY_KV) : MEMORY_KV[i].name = MEMORY_KV[j].name => i = j

StoreHoldsLastStored ==
  \A k \in Keys : KvGetValue(MEMORY_KV, k) = LastStored(k)

ShowsOnlyLastStored(text) ==
  LET ls == ReportedLines(text)
  IN \A i \in 1..Len(ls) :
       /\ LineKey(ls[i]) \in Keys
       /\ ls[i] = ExpectedLine(LineKey(ls[i]), LastStored(LineKey(ls[i])))
       /\ \A j \in 1..Len(ls) : LineKey(ls[j]) = LineKey(ls[i]) => j = i

SearchReturns(r) ==
  /\ req[r].pc \in {"list", "get"}
  /\ req'[r].pc = "done"
  /\ IsCall(req[r], "search_memory")

(* C2: after any sequence of store_memory calls each key is in the store  *)
(* at most once, with the value of the most recent successful store; a    *)
(* search_memory that follows them shows each key at most once, and only  *)
(* with that value.                                                       *)
C2_LastWriteWins ==
  /\ [](NoDuplicateKeys /\ StoreHoldsLastStored)
  /\ [][\A r \in Reqs :
          (SearchReturns(r) /\ Quiet(req'[r])) =>
            ShowsOnlyLastStored(req'[r].response.text)]_vars

C2_Witness ==
  \E r \in Reqs :
    /\ Answered(req[r]) /\ IsCall(req[r], "search_memory") /\ Quiet(req[r])
    /\ stored[<<"a">>] = <<<<"b">>, <<"A", "c">>>>
    /\ ReportedLines(req[r].response.text) = <<ExpectedLine(<<"a">>, <<"A", "c">>)>>

(***************************************************************************)
(* C3                                                                      *)
(***************************************************************************)
KnownTool(rq) ==
  \E name \in {"ask_memory", "store_memory", "search_memory"} : IsCall(rq, name)

(* C3: a tools/call to store_memory, search_memory or ask_memory never    *)
(* gets a JSON-RPC error envelope, whatever fails inside the tool: the    *)
(* response is a result whose text describes the failure.                 *)
C3_ToolFailuresAreResults ==
  \A r \in Reqs :
    (Answered(req[r]) /\ KnownTool(req[r])) =>
      /\ ~req[r].response.error
      /\ req[r].response.result = "content"
      /\ req[r].response.text # <<>>

(***************************************************************************)
(* C4                                                                      *)
(***************************************************************************)
(* C4: an ask_memory whose question is missing, empty or only whitespace  *)
(* is answered at once with the fixed prompt-for-input text as a result,  *)
(* and issues no completion call and no list, get or put.                 *)
C4_BlankQuestion ==
  \A r \in Reqs :
    (IsCall(req[r], "ask_memory") /\ Blank(ArgOf(req[r], "question"))) =>
      /\ Answered(req[r])
      /\ IsTextResult(req[r], <<"(?) Please ask a question about your memory.">>)
      /\ req[r].nApi = 0
      /\ req[r].nList = 0 /\ req[r].nGet = 0 /\ req[r].nPut = 0

C4_Witness ==
  \E r \in Reqs :
    /\ Answered(req[r]) /\ IsCall(req[r], "ask_memory")
    /\ ArgOf(req[r], "question") = <<" ">>
    /\ "question" \in DOMAIN req[r].body.args
    /\ req[r].response.text = AskBlankText

(***************************************************************************)
(* C5                                                                      *)
(***************************************************************************)
(* C5: a store_memory whose key or value is missing or empty is answered  *)
(* at once with the fixed missing-fields text as a result, not an error,  *)
(* and issues no put.                                                     *)
C5_MissingFields ==
  \A r \in Reqs :
    ( /\ IsCall(req[r], "store_memory")
      /\ ArgOf(req[r], "key") = <<>> \/ ArgOf(req[r], "value") = <<>> ) =>
      /\ Answered(req[r])
      /\ IsTextResult(req[r], <<"(x) Both key and value are required">>)
      /\ req[r].nPut = 0

C5_Witness ==
  \E r \in Reqs :
    /\ Answered(req[r]) /\ IsCall(req[r], "store_memory")
    /\ req[r].body.args = [key |-> <<"a">>]
    /\ req[r].response.text = MissingFieldsText
    /\ MEMORY_KV # <<>>

(***************************************************************************)
(* C6                                                                      *)
(***************************************************************************)
HeldValue(rq, k) == CHOOSE v \in rq.held[k] : TRUE

EntryMatches(rq, k) ==
  /\ HeldValue(rq, k) # <<>>
  /\ CiMatch(ArgOf(rq, "query"), k) \/ CiMatch(ArgOf(rq, "query"), HeldValue(rq, k))

RECURSIVE Joined(_)
Joined(lines) ==
  IF lines = <<>> THEN <<>>
  ELSE IF Len(lines) = 1 THEN lines[1]
  ELSE lines[1] \o <<"\n">> \o Joined(Tail(lines))

ExpectedSearchText(rq) ==
  LET hits == SelectSeq(rq.list, LAMBDA k : EntryMatches(rq, k))
      lines == [i \in 1..Len(hits) |-> ExpectedLine(hits[i], HeldValue(rq, hits[i]))]
  IN IF hits = <<>>
     THEN <<"No memories found matching \"">> \o ArgOf(rq, "query") \o <<"\"">>
     ELSE <<"Found ", ToString(Len(hits)), " memories:", "\n">> \o Joined(lines)

ListsTheStore(rq) ==
  /\ \A k \in Keys : HeldValue(rq, k) # <<>> <=> \E i \in 1..Len(rq.list) : rq.list[i] = k
  /\ \A i, j \in 1..Len(rq.list) : rq.list[i] = rq.list[j] => i = j

C6_WitnessNone ==
  \E r \in Reqs :
    /\ Answered(req[r]) /\ IsCall(req[r], "search_memory")
    /\ ~req[r].kvFailed /\ Quiet(req[r]) /\ req[r].list # <<>>
    /\ req[r].response.text = <<"No memories found matching \"", "z", "\"">>

(***************************************************************************)
(* C7                                                                      *)
(***************************************************************************)
Decoded(rq) ==
  rq.pc # "idle" /\ rq.httpMethod = "POST" /\ rq.path = "/mcp" /\ rq.body.kind = "json"

IsNotFoundError(rq, message) ==
  /\ rq.response.kind = "rpc"
  /\ rq.response.error
  /\ rq.response.code = -32601
  /\ rq.response.message = message
  /\ rq.response.id = rq.body.id

(* C7: a decoded request with an unknown method, or a tools/call with an  *)
(* unknown tool name, gets the error -32601 "Unknown method: <method>" or *)
(* "Unknown tool: <name>" with the request's id; every other decoded      *)
(* request processed without exception gets a result with the request's   *)
(* id.                                                                    *)
C7_DispatchEnvelope ==
  \A r \in Reqs :
    (Answered(req[r]) /\ Decoded(req[r])) =>
      IF req[r].body.method \notin {"initialize", "tools/list", "tools/call"}
      THEN IsNotFoundError(req[r], <<"Unknown method: ", req[r].body.method>>)
      ELSE IF /\ req[r].body.method = "tools/call"
              /\ req[r].body.name \notin {"ask_memory", "store_memory", "search_memory"}
      THEN IsNotFoundError(req[r], <<"Unknown tool: ", req[r].body.name>>)
      ELSE ~req[r].threw =>
             /\ req[r].response.kind = "rpc"
             /\ ~req[r].response.error
             /\ req[r].response.result # "none"
             /\ req[r].response.id = req[r].body.id

C7_Witness ==
  \E r, s \in Reqs :
    /\ Answered(req[r]) /\ Decoded(req[r])
    /\ req[r].body.method = "tools/call" /\ req[r].body.name = "delete_memory"
    /\ req[r].body.id = "2" /\ req[r].response.id = "2"
    /\ Answered(req[s]) /\ Decoded(req[s])
    /\ req[s].body.method = "shutdown"
    /\ req[s].body.id = "1" /\ req[s].response.id = "1"

(***************************************************************************)
(* C8                                                                      *)
(***************************************************************************)
IsNotFound(rq) == rq.response.status = 404 /\ rq.response.kind = "Not Found"

(* C8 as stated: every request other than OPTIONS (any path),             *)
(* GET /health, GET / and POST /mcp is answered 404 "Not Found", and      *)
(* only those four are answered otherwise.                                *)
C8_OnlyFourRoutes ==
  \A r \in Reqs :
    Answered(req[r]) =>
      ( IsNotFound(req[r]) <=>
          ~( \/ req[r].httpMethod = "OPTIONS"
             \/ req[r].httpMethod = "GET" /\ req[r].path = "/health"
             \/ req[r].httpMethod = "GET" /\ req[r].path = "/"
             \/ req[r].httpMethod = "POST" /\ req[r].path = "/mcp" ) )

(* C8 amended: a request is answered 404 "Not Found" exactly when its     *)
(* method is not OPTIONS, its path is neither /health nor /, and it is    *)
(* not a POST to /mcp; /health and / are served for every method.         *)
C8_NotFoundRoutes ==
  \A r \in Reqs :
    Answered(req[r]) =>
      ( IsNotFound(req[r]) <=>
          ~( \/ req[r].httpMethod = "OPTIONS"
             \/ req[r].path = "/health"
             \/ req[r].path = "/"
             \/ req[r].httpMethod = "POST" /\ req[r].path = "/mcp" ) )

C8_Witness ==
  \E r, s \in Reqs :
    /\ Answered(req[r]) /\ req[r].httpMethod = "GET" /\ req[r].path = "/mcp"
    /\ IsNotFound(req[r])
    /\ Answered(req[s]) /\ req[s].httpMethod = "DELETE" /\ req[s].path = "/health"
    /\ req[s].response.status = 200 /\ req[s].response.kind = "health"

(***************************************************************************)
(* C9                                                                      *)
(***************************************************************************)
AsksForReal(rq) == IsCall(rq, "ask_memory") /\ ~Blank(ArgOf(rq, "question"))

(* C9: an ask_memory with a non-blank question does one search (one       *)
(* list), over before the completion call starts, then one completion     *)
(* call and never a second; if that call fails the text holds the         *)
(* question, the AI-error notice and the text of that search, and the     *)
(* response is still a result.                                            *)
C9_AskOnce ==
  \A r \in Reqs :
    AsksForReal(req[r]) =>
      /\ req[r].nList <= 1 /\ req[r].nApi <= 1 /\ req[r].nPut = 0
      /\ req[r].nApi = 1 <=> req[r].pc \in {"completion", "done"}
      /\ req[r].nApi = 1 =>
           /\ req[r].nList = 1
           /\ req[r].searchResults # <<>>
           /\ Occurs(req[r].searchResults, req[r].prompt)
           /\ req[r].kvFailed \/ req[r].nGet = Len(req[r].list)
      /\ Answered(req[r]) =>
           /\ req[r].response.kind = "rpc" /\ req[r].response.status = 200
           /\ ~req[r].response.error /\ req[r].response.result = "content"
           /\ req[r].response.id = req[r].body.id
      /\ (Answered(req[r]) /\ req[r].apiFailed) =>
           /\ Occurs(<<"(brain) **Memory Query**: \"">> \o ArgOf(req[r], "question") \o <<"\"">>,
                     req[r].response.text)
           /\ Occurs(<<"(x) **AI Error**: ">>, req[r].response.text)
           /\ Occurs(req[r].searchResults, req[r].response.text)

C9_Witness ==
  \E r \in Reqs :
    /\ AsksForReal(req[r]) /\ Answered(req[r]) /\ req[r].apiFailed
    /\ req[r].nGet = 2
    /\ req[r].searchResults[1] = "Found "
    /\ Occurs(<<"OpenAI API error: ", "500">>, req[r].response.text)

(***************************************************************************)
(* C10                                                                     *)
(***************************************************************************)
(* C10: when stores interleave with a running search_memory, every        *)
(* "key: value" line of its result shows a value the key held at some     *)
(* moment between the search's list call and its return, and no key is    *)
(* reported twice.                                                        *)
C10_InterleavedSearch ==
  \A r \in Reqs :
    (Answered(req[r]) /\ IsCall(req[r], "search_memory") /\ ~req[r].kvFailed) =>
      LET ls == ReportedLines(req[r].response.text)
      IN /\ req[r].response.text[1] \in {"Found ", "No memories found matching \""}
         /\ \A i \in 1..Len(ls) :
              /\ ls[i][1] = "* "
              /\ LineKey(ls[i]) \in Keys
              /\ LineValue(ls[i]) # <<>>
              /\ LineValue(ls[i]) \in req[r].held[LineKey(ls[i])]
              /\ \A j \in 1..Len(ls) : LineKey(ls[j]) = LineKey(ls[i]) => j = i

(* a search that shows a value written after its list call, one the store *)
(* did not hold when the search was called                                *)
C10_Witness ==
  \E r \in Reqs :
    /\ Answered(req[r]) /\ IsCall(req[r], "search_memory") /\ ~req[r].kvFailed
    /\ req[r].held[<<"a">>] = {<<"b">>, <<"A", "c">>}
    /\ stored[<<"a">>] = <<<<"b">>, <<"A", "c">>>>
    /\ ReportedLines(req[r].response.text) = <<ExpectedLine(<<"a">>, <<"A", "c">>)>>

====
